---- MODULE Spec2Model ----
(***************************************************************************)
(* A model of pdf2zh/high_level.py: the layout mask built per page, the    *)
(* page sweep of translate_patch, the tail of translate_stream (patch      *)
(* application and dual assembly), font resolution, the font-resource      *)
(* scan, and the batch loop of translate().                                *)
(*                                                                         *)
(* Each part has its own specification over the shared variables; a        *)
(* specification leaves the variables of the other parts parked at their   *)
(* initial values.                                                         *)
(***************************************************************************)
EXTENDS Integers, Sequences, FiniteSets, TLC

VARIABLES
    \* ---- layout mask (translate_patch, lines 199-227) ----
    h,              \* pix.height
    w,              \* pix.width
    boxes,          \* page_layout.boxes, in the detector's order
    layout,         \* layout[page.pageno]: the stored mask, or NoMask
    mpc,            \* position in the mask code: "predict", "stored"
    \* ---- translate_stream / translate_patch (lines 182-235, 314-327) ----
    page_count,     \* doc_zh.page_count
    pages,          \* the page-index filter; {} when none is given
    callback,       \* whether a progress callback is given
    cancellation_event, \* cancellation_event.is_set()
    pageno,         \* the page the sweep is about to visit
    progress,       \* progress.n: the number of progress.update() calls
    callbackCalls,  \* how many times callback(progress) ran
    masked,         \* the pages layout[] holds a mask for
    contents,       \* per page of doc_zh: the xref bound as its contents (0: the original)
    new_xref,       \* what doc_zh.get_new_xref() returns next
    processed,      \* the pages interpreter.process_page ran on
    obj_patch,      \* object id -> the page whose rewrite wrote the body
    applied,        \* the object ids doc_zh.update_stream was called on (line 320)
    doc_en,         \* the pages of doc_en, in order
    id,             \* the loop variable of line 324
    returned,       \* what translate_stream returned, or NoResult
    spc,            \* position: "sweep", "cancelled", "apply", "insert", "move", "returned"
    \* ---- font resolution (lines 59-135, 253-267) ----
    platform,       \* sys.platform
    disk,           \* the font files that exist, as <<directory, file name>>
    cached,         \* whether fallback_path exists
    calls,          \* resolutions made so far
    fetchAttempts,  \* urlretrieve calls made so far
    downloads,      \* urlretrieve calls that wrote fallback_path
    font_path,      \* font_path of the last resolution; None when it raised
    lastFetch,      \* whether the last resolution called urlretrieve
    lastCached,     \* whether fallback_path existed when the last resolution began
    \* ---- font-resource scan (lines 289-311) ----
    xreflen,        \* doc_zh.xref_length()
    fontdict,       \* <<xref, label>> -> the Font entry found under that label
    original,       \* fontdict before the first scan
    firstpass,      \* fontdict after the first scan
    pass,           \* 1: the scan of translate_stream; 2: the scan run again
    xref,           \* the loop variable of line 297
    label,          \* the position in ["Resources/", ""], line 298
    \* ---- translate() (lines 377-454) ----
    files,          \* the files argument: the kind of each entry
    fileno,         \* the position of the loop of line 408 in files
    read,           \* the entries whose document was opened and read (434-436)
    written,        \* the entries whose mono and dual outputs were written
    result_files,   \* result_files, as positions in files
    error,          \* the exception translate() raised, or NoError
    tpc             \* position: "check", "loop", "raised", "returned"

maskVars == <<h, w, boxes, layout, mpc>>

streamVars == <<page_count, pages, callback, cancellation_event, pageno, progress,
                callbackCalls, masked, contents, new_xref, processed, obj_patch,
                applied, doc_en, id, returned, spc>>

fontVars == <<platform, disk, cached, calls, fetchAttempts, downloads, font_path,
              lastFetch, lastCached>>

scanVars == <<xreflen, fontdict, original, firstpass, pass, xref, label>>

batchVars == <<files, fileno, read, written, result_files, error, tpc>>

vars == <<maskVars, streamVars, fontVars, scanVars, batchVars>>

----------------------------------------------------------------------------
(* Bounds *)

MaxH == 3           \* largest page image height
MaxW == 2           \* largest page image width
MaxBoxes == 2       \* longest detector output list
MaxPages == 3       \* largest document, in pages
MaxFiles == 2       \* most font files present on the machine
MaxCalls == 3       \* most font resolutions in a row
MaxXrefLen == 3     \* largest xref_length(): objects 1..MaxXrefLen-1
MaxBatch == 3       \* longest list of files

----------------------------------------------------------------------------
(* Layout mask: translate_patch, lines 204-227 *)

\* The preserve classes, line 206.
vcls == {"abandon", "figure", "table", "isolate_formula", "formula_caption"}

\* page_layout.names: the detector's class table, sampled with one
\* translatable and one preserve class; d.cls indexes it.
names == <<"plain text", "figure">>

NoMask == <<"none">>

\* np.clip(v, lo, hi)
clip(v, lo, hi) == IF v < lo THEN lo ELSE IF v > hi THEN hi ELSE v

\* Lines 210-215 and 220-225: the 1-pixel expansion, the vertical flip and the
\* clamp. Detector coordinates are sampled on the integer pixel grid, where
\* int() changes nothing.
Rect(d, hh, ww) ==
    [x0 |-> clip(d.x0 - 1, 0, ww - 1),
     y0 |-> clip(hh - d.y1 - 1, 0, hh - 1),
     x1 |-> clip(d.x1 + 1, 0, ww - 1),
     y1 |-> clip(hh - d.y0 + 1, 0, hh - 1)]

\* Cell (row, col) belongs to the slice box[y0:y1, x0:x1] (upper ends excluded).
InSlice(r, row, col) ==
    /\ r.y0 <= row /\ row < r.y1
    /\ r.x0 <= col /\ col < r.x1

\* box[y0:y1, x0:x1] = val
Paint(m, r, val) ==
    [row \in DOMAIN m |->
        [col \in DOMAIN m[row] |->
            IF InSlice(r, row, col) THEN val ELSE m[row][col]]]

\* np.ones((pix.height, pix.width)), line 204
Ones(hh, ww) == [row \in 0..(hh - 1) |-> [col \in 0..(ww - 1) |-> 1]]

IsPreserve(d) == names[d.cls] \in vcls

\* Lines 207-216: the first loop, from list position k on. enumerate() counts
\* from 0, so the box at sequence position k has i = k - 1 and value i + 2.
RECURSIVE PaintTranslatable(_, _, _, _, _)
PaintTranslatable(m, bs, k, hh, ww) ==
    IF k > Len(bs) THEN m
    ELSE PaintTranslatable(
            IF ~IsPreserve(bs[k]) THEN Paint(m, Rect(bs[k], hh, ww), (k - 1) + 2)
            ELSE m,
            bs, k + 1, hh, ww)

\* Lines 217-226: the second loop.
RECURSIVE PaintPreserve(_, _, _, _, _)
PaintPreserve(m, bs, k, hh, ww) ==
    IF k > Len(bs) THEN m
    ELSE PaintPreserve(
            IF IsPreserve(bs[k]) THEN Paint(m, Rect(bs[k], hh, ww), 0) ELSE m,
            bs, k + 1, hh, ww)

\* A faulty variant: one loop over the list that paints each box as it comes,
\* so a translatable box listed after a preserve box overwrites it.
RECURSIVE PaintInListOrder(_, _, _, _, _)
PaintInListOrder(m, bs, k, hh, ww) ==
    IF k > Len(bs) THEN m
    ELSE PaintInListOrder(
            Paint(m, Rect(bs[k], hh, ww),
                  IF IsPreserve(bs[k]) THEN 0 ELSE (k - 1) + 2),
            bs, k + 1, hh, ww)

BuildMaskSinglePass(bs, hh, ww) == PaintInListOrder(Ones(hh, ww), bs, 1, hh, ww)

\* Lines 204-226: the mask of one page.
BuildMask(bs, hh, ww) ==
    PaintPreserve(PaintTranslatable(Ones(hh, ww), bs, 1, hh, ww), bs, 1, hh, ww)

\* The boxes the detector can return for an hh x ww image, in image space:
\* every row range y0 < y1, one-pixel-wide column ranges, and a class index.
DetectionBoxes(hh, ww) ==
    {d \in [x0 : 0..ww, y0 : 0..hh, x1 : 0..ww, y1 : 0..hh, cls : DOMAIN names] :
        d.x1 = d.x0 + 1 /\ d.y0 < d.y1}

MaskStart ==
    /\ h \in 2..MaxH
    /\ w = MaxW
    /\ boxes = <<>>
    /\ layout = NoMask
    /\ mpc = "predict"

\* Line 203: model.predict(image, ...)[0]; the detector's list is drawn one
\* box at a time, up to MaxBoxes boxes.
Predict ==
    /\ mpc = "predict"
    /\ Len(boxes) < MaxBoxes
    /\ \E d \in DetectionBoxes(h, w) : boxes' = Append(boxes, d)
    /\ UNCHANGED <<h, w, layout, mpc>>
    /\ UNCHANGED <<streamVars, fontVars, scanVars, batchVars>>

\* Lines 204-227: build the mask from the returned list and store it in
\* layout[page.pageno].
StoreLayout ==
    /\ mpc = "predict"
    /\ layout' = BuildMask(boxes, h, w)
    /\ mpc' = "stored"
    /\ UNCHANGED <<h, w, boxes>>
    /\ UNCHANGED <<streamVars, fontVars, scanVars, batchVars>>

----------------------------------------------------------------------------
(* translate_stream: the page sweep of translate_patch, the application of
   the patch map, and the dual document *)

NoResult == <<"none">>

\* An empty dict.
EmptyMap == [x \in {} |-> 0]

\* d[key] = val
Put(d, key, val) == [x \in DOMAIN d \cup {key} |-> IF x = key THEN val ELSE d[x]]

\* The pages of a document, by origin: "en" the original, "zh" the translated.
PagesOf(doc, n) == [k \in 1..n |-> <<doc, k - 1>>]

\* An object the pages share (a form XObject); the pages' own objects follow.
SharedXref == 1

StreamStart ==
    /\ page_count \in 0..MaxPages
    /\ pages \in SUBSET (0..(page_count - 1))
    /\ callback \in BOOLEAN
    /\ cancellation_event = FALSE
    /\ pageno = 0
    /\ progress = 0
    /\ callbackCalls = 0
    /\ masked = {}
    /\ contents = [p \in 0..(page_count - 1) |-> 0]
    /\ new_xref = SharedXref + page_count + 1
    /\ processed = {}
    /\ obj_patch = EmptyMap
    /\ applied = {}
    /\ doc_en = PagesOf("en", page_count)
    /\ id = 0
    /\ returned = NoResult
    /\ spc = "sweep"

\* The cancellation flag is set from outside, at any moment of the sweep.
SetCancel ==
    /\ spc = "sweep"
    /\ ~cancellation_event
    /\ cancellation_event' = TRUE
    /\ UNCHANGED <<page_count, pages, callback, pageno, progress, callbackCalls,
                   masked, contents, new_xref, processed, obj_patch, applied,
                   doc_en, id, returned, spc>>
    /\ UNCHANGED <<maskVars, fontVars, scanVars, batchVars>>

\* A faulty variant: cancellation leaves the loop and the patch map built so
\* far is returned.
CancelBreaks ==
    /\ spc = "sweep"
    /\ pageno < page_count
    /\ cancellation_event
    /\ spc' = "apply"
    /\ UNCHANGED <<page_count, pages, callback, cancellation_event, pageno,
                   progress, callbackCalls, masked, contents, new_xref, processed,
                   obj_patch, applied, doc_en, id, returned>>
    /\ UNCHANGED <<maskVars, fontVars, scanVars, batchVars>>

\* Lines 191-192: raise CancelledError; it leaves translate_patch and
\* translate_stream, which catch nothing.
RaiseCancelled ==
    /\ spc = "sweep"
    /\ pageno < page_count
    /\ cancellation_event
    /\ spc' = "cancelled"
    /\ UNCHANGED <<page_count, pages, callback, cancellation_event, pageno,
                   progress, callbackCalls, masked, contents, new_xref, processed,
                   obj_patch, applied, doc_en, id, returned>>
    /\ UNCHANGED <<maskVars, fontVars, scanVars, batchVars>>

\* Lines 182-185: the total of the progress bar.
total_pages == IF pages # {} THEN Cardinality(pages) ELSE page_count

\* Line 193: pages and (pageno not in pages)
Filtered(p) == pages # {} /\ p \notin pages

\* A faulty variant: progress is advanced and the callback invoked before the
\* filter is looked at.
SkipPageAfterProgress ==
    /\ spc = "sweep"
    /\ pageno < page_count
    /\ ~cancellation_event
    /\ Filtered(pageno)
    /\ progress' = progress + 1
    /\ callbackCalls' = IF callback THEN callbackCalls + 1 ELSE callbackCalls
    /\ pageno' = pageno + 1
    /\ UNCHANGED <<page_count, pages, callback, cancellation_event, masked,
                   contents, new_xref, processed, obj_patch, applied, doc_en, id,
                   returned, spc>>
    /\ UNCHANGED <<maskVars, fontVars, scanVars, batchVars>>

\* Lines 193-194: continue
SkipPage ==
    /\ spc = "sweep"
    /\ pageno < page_count
    /\ ~cancellation_event
    /\ Filtered(pageno)
    /\ pageno' = pageno + 1
    /\ UNCHANGED <<page_count, pages, callback, cancellation_event, progress,
                   callbackCalls, masked, contents, new_xref, processed, obj_patch,
                   applied, doc_en, id, returned, spc>>
    /\ UNCHANGED <<maskVars, fontVars, scanVars, batchVars>>

\* Lines 195-232, for the page p: progress, callback, the mask, a fresh
\* content object bound to the page, and the rewrite engine, which writes the
\* body of the page's new object and of the shared object when it touches
\* them.
RewritePage(p) ==
    /\ progress' = progress + 1
    /\ callbackCalls' = IF callback THEN callbackCalls + 1 ELSE callbackCalls
    /\ masked' = masked \cup {p}
    /\ contents' = [contents EXCEPT ![p] = new_xref]
    /\ new_xref' = new_xref + 1
    /\ processed' = processed \cup {p}
    /\ \E own \in BOOLEAN, shared \in BOOLEAN :
          obj_patch' =
            LET a == IF own THEN Put(obj_patch, new_xref, p) ELSE obj_patch
            IN  IF shared THEN Put(a, SharedXref, p) ELSE a

\* A faulty variant: the filter is looked at only before the rewrite engine
\* runs, so a filtered page still gets a mask and a fresh content object.
ProcessPageFilterLate ==
    /\ spc = "sweep"
    /\ pageno < page_count
    /\ ~cancellation_event
    /\ IF Filtered(pageno)
       THEN /\ masked' = masked \cup {pageno}
            /\ contents' = [contents EXCEPT ![pageno] = new_xref]
            /\ new_xref' = new_xref + 1
            /\ UNCHANGED <<progress, callbackCalls, processed, obj_patch>>
       ELSE RewritePage(pageno)
    /\ pageno' = pageno + 1
    /\ UNCHANGED <<page_count, pages, callback, cancellation_event, applied,
                   doc_en, id, returned, spc>>
    /\ UNCHANGED <<maskVars, fontVars, scanVars, batchVars>>

\* Lines 190-232: one page that is neither cancelled nor filtered.
ProcessPage ==
    /\ spc = "sweep"
    /\ pageno < page_count
    /\ ~cancellation_event
    /\ ~Filtered(pageno)
    /\ RewritePage(pageno)
    /\ pageno' = pageno + 1
    /\ UNCHANGED <<page_count, pages, callback, cancellation_event, applied,
                   doc_en, id, returned, spc>>
    /\ UNCHANGED <<maskVars, fontVars, scanVars, batchVars>>

\* Lines 234-235 and 316: the sweep is over, translate_patch returns obj_patch.
ReturnPatch ==
    /\ spc = "sweep"
    /\ pageno = page_count
    /\ spc' = "apply"
    /\ UNCHANGED <<page_count, pages, callback, cancellation_event, pageno,
                   progress, callbackCalls, masked, contents, new_xref, processed,
                   obj_patch, applied, doc_en, id, returned>>
    /\ UNCHANGED <<maskVars, fontVars, scanVars, batchVars>>

\* Lines 319-320: doc_zh.update_stream for every entry of the patch map.
ApplyPatch ==
    /\ spc = "apply"
    /\ applied' = DOMAIN obj_patch
    /\ spc' = "insert"
    /\ UNCHANGED <<page_count, pages, callback, cancellation_event, pageno,
                   progress, callbackCalls, masked, contents, new_xref, processed,
                   obj_patch, doc_en, id, returned>>
    /\ UNCHANGED <<maskVars, fontVars, scanVars, batchVars>>

\* Line 323: doc_en.insert_file(doc_zh) appends the pages of doc_zh.
InsertFile ==
    /\ spc = "insert"
    /\ doc_en' = doc_en \o PagesOf("zh", page_count)
    /\ id' = 0
    /\ spc' = "move"
    /\ UNCHANGED <<page_count, pages, callback, cancellation_event, pageno,
                   progress, callbackCalls, masked, contents, new_xref, processed,
                   obj_patch, applied, returned>>
    /\ UNCHANGED <<maskVars, fontVars, scanVars, batchVars>>

\* Document.move_page(pno, to): page pno is taken out and put in front of the
\* page that stood at index to; nothing moves when pno = to. Indices count
\* from 0, sequence positions from 1.
move_page(doc, pno, to) ==
    IF pno = to THEN doc
    ELSE LET moved == doc[pno + 1]
             rest == [k \in 1..(Len(doc) - 1) |->
                        IF k < pno + 1 THEN doc[k] ELSE doc[k + 1]]
             at == IF pno < to THEN to ELSE to + 1
         IN  [k \in 1..Len(doc) |->
                IF k < at THEN rest[k]
                ELSE IF k = at THEN moved
                ELSE rest[k - 1]]

\* A faulty variant: the translated page is put in front of its original.
MovePageBeforeOriginal ==
    /\ spc = "move"
    /\ id < page_count
    /\ doc_en' = move_page(doc_en, page_count + id, id * 2)
    /\ id' = id + 1
    /\ UNCHANGED <<page_count, pages, callback, cancellation_event, pageno,
                   progress, callbackCalls, masked, contents, new_xref, processed,
                   obj_patch, applied, returned, spc>>
    /\ UNCHANGED <<maskVars, fontVars, scanVars, batchVars>>

\* Lines 324-325: one turn of the loop.
MovePage ==
    /\ spc = "move"
    /\ id < page_count
    /\ doc_en' = move_page(doc_en, page_count + id, id * 2 + 1)
    /\ id' = id + 1
    /\ UNCHANGED <<page_count, pages, callback, cancellation_event, pageno,
                   progress, callbackCalls, masked, contents, new_xref, processed,
                   obj_patch, applied, returned, spc>>
    /\ UNCHANGED <<maskVars, fontVars, scanVars, batchVars>>

\* Line 327: return doc_zh.write(...), doc_en.write(...)
ReturnStream ==
    /\ spc = "move"
    /\ id = page_count
    /\ returned' = [mono |-> PagesOf("zh", page_count), dual |-> doc_en]
    /\ spc' = "returned"
    /\ UNCHANGED <<page_count, pages, callback, cancellation_event, pageno,
                   progress, callbackCalls, masked, contents, new_xref, processed,
                   obj_patch, applied, doc_en, id>>
    /\ UNCHANGED <<maskVars, fontVars, scanVars, batchVars>>

----------------------------------------------------------------------------
(* Font resolution: get_system_fonts, get_fallback_font and lines 253-267 of
   translate_stream *)

None == <<"None">>

Platforms == {"win32", "darwin", "linux"}

\* font_paths, lines 65-68, 77-81 and 90-94.
font_paths(pf) ==
    IF pf = "win32" THEN <<"WINDIR/Fonts", "LOCALAPPDATA/Microsoft/Windows/Fonts">>
    ELSE IF pf = "darwin"
    THEN <<"/System/Library/Fonts", "/Library/Fonts", "~/Library/Fonts">>
    ELSE <<"/usr/share/fonts", "/usr/local/share/fonts", "~/.fonts">>

\* font_files, lines 69-74, 82-87 and 95-100.
font_files(pf) ==
    IF pf = "darwin"
    THEN [simsun |-> <<"Sun.ttf", "STSong.ttf">>,
          simhei |-> <<"STHeiti.ttf">>,
          msyh   |-> <<"STHeiti Light.ttf">>,
          simkai |-> <<"STKaiti.ttf">>]
    ELSE [simsun |-> <<"simsun.ttc", "simsun.ttf">>,
          simhei |-> <<"simhei.ttf">>,
          msyh   |-> <<"msyh.ttc", "msyh.ttf">>,
          simkai |-> <<"simkai.ttf">>]

\* The order of line 258.
FontOrder == <<"simsun", "simhei", "msyh", "simkai">>

Range(f) == {f[x] : x \in DOMAIN f}

\* Every path get_system_fonts can look at on a platform.
CandidateFiles(pf) ==
    {<<d, n>> : d \in Range(font_paths(pf)),
                n \in UNION {Range(font_files(pf)[f]) : f \in Range(FontOrder)}}

\* Lines 103-113 for one family: the first directory of font_paths that holds
\* one of the family's file names, and in it the first such name; None when
\* there is none. A directory that does not exist holds no file.
system_font(pf, fs, family) ==
    LET dirs == font_paths(pf)
        fnames == font_files(pf)[family]
        hits == {x \in (DOMAIN dirs) \X (DOMAIN fnames) :
                    <<dirs[x[1]], fnames[x[2]]>> \in fs}
    IN  IF hits = {} THEN None
        ELSE LET best == CHOOSE x \in hits :
                            \A y \in hits :
                                x[1] < y[1] \/ (x[1] = y[1] /\ x[2] <= y[2])
             IN  <<dirs[best[1]], fnames[best[2]]>>

\* Lines 257-261: the first family of the order that get_system_fonts found,
\* from position k on.
RECURSIVE PickFont(_, _, _)
PickFont(pf, fs, k) ==
    IF k > Len(FontOrder) THEN None
    ELSE IF system_font(pf, fs, FontOrder[k]) # None
         THEN system_font(pf, fs, FontOrder[k])
         ELSE PickFont(pf, fs, k + 1)

\* fallback_path, line 125.
FallbackPath == <<"pdf2zh_fonts", "SourceHanSerifSC-Regular.otf">>

\* A faulty variant: the cache is not looked at.
CacheNeverHit == FALSE

\* os.path.exists(fallback_path), line 127.
CacheHit == cached

FontStart ==
    /\ platform \in Platforms
    /\ disk \in {fs \in SUBSET CandidateFiles(platform) : Cardinality(fs) <= MaxFiles}
    /\ cached \in BOOLEAN
    /\ calls = 0
    /\ fetchAttempts = 0
    /\ downloads = 0
    /\ font_path = None
    /\ lastFetch = FALSE
    /\ lastCached = FALSE

\* Lines 254-261 when a local font is found: get_fallback_font is not called.
ResolveLocal ==
    /\ calls < MaxCalls
    /\ PickFont(platform, disk, 1) # None
    /\ font_path' = PickFont(platform, disk, 1)
    /\ calls' = calls + 1
    /\ lastFetch' = FALSE
    /\ lastCached' = cached
    /\ UNCHANGED <<platform, disk, cached, fetchAttempts, downloads>>
    /\ UNCHANGED <<maskVars, streamVars, scanVars, batchVars>>

\* Lines 264-265 with 127 false and 135: the cached file is used.
ResolveCached ==
    /\ calls < MaxCalls
    /\ PickFont(platform, disk, 1) = None
    /\ CacheHit
    /\ font_path' = (IF cached THEN FallbackPath ELSE None)
    /\ calls' = calls + 1
    /\ lastFetch' = FALSE
    /\ lastCached' = cached
    /\ UNCHANGED <<platform, disk, cached, fetchAttempts, downloads>>
    /\ UNCHANGED <<maskVars, streamVars, scanVars, batchVars>>

\* Lines 264-267 with 127-135: urlretrieve runs. It either writes the whole
\* file, or fails before it creates the file, or fails after it wrote a part
\* of it; on a failure get_fallback_font returns None and translate_stream
\* raises RuntimeError.
ResolveFetch ==
    /\ calls < MaxCalls
    /\ PickFont(platform, disk, 1) = None
    /\ ~CacheHit
    /\ \E outcome \in {"written", "failed", "truncated"} :
        /\ cached' = (cached \/ outcome # "failed")
        /\ downloads' = IF outcome # "failed" THEN downloads + 1 ELSE downloads
        /\ font_path' = IF outcome = "written" THEN FallbackPath ELSE None
    /\ fetchAttempts' = fetchAttempts + 1
    /\ calls' = calls + 1
    /\ lastFetch' = TRUE
    /\ lastCached' = cached
    /\ UNCHANGED <<platform, disk>>
    /\ UNCHANGED <<maskVars, streamVars, scanVars, batchVars>>

----------------------------------------------------------------------------
(* The font-resource scan: translate_stream, lines 295-311 *)

\* Line 298.
Labels == <<"Resources/", "">>

\* font_list, line 270: one font, under this name.
FontName == "CustomFont"

\* f"{font_id[font[0]]} 0 R", line 308: the reference insert_font returned.
NewRef == "font_id 0 R"

\* A binding the document already holds under the font's name.
OldRef == "other 0 R"

\* What xref_get_key(xref, f"{label}Font") can meet: no such key ("null"), an
\* indirect reference ("xref"), an object whose inspection raises ("raises"),
\* or a dictionary ("dict") in which the font's name is bound or not.
FontEntries ==
    {[type |-> t, bound |-> "null"] : t \in {"null", "xref", "raises"}}
    \cup {[type |-> "dict", bound |-> b] : b \in {"null", OldRef}}

ScanKeys(n) == (1..(n - 1)) \X (DOMAIN Labels)

\* A faulty variant: the name is bound without looking whether it is bound.
BindsAlways(e) == e.type = "dict"

\* Lines 301-304: font_res[0] == "dict" and font_exist[0] == "null".
Binds(e) == e.type = "dict" /\ e.bound = "null"

ScanStart ==
    /\ xreflen \in 1..MaxXrefLen
    /\ fontdict \in [ScanKeys(xreflen) -> FontEntries]
    /\ original = fontdict
    /\ firstpass = fontdict
    /\ pass = 1
    /\ xref = 1
    /\ label = 1

\* The next turn of the loops of lines 297-298.
Advance ==
    IF label < Len(Labels)
    THEN label' = label + 1 /\ xref' = xref
    ELSE label' = 1 /\ xref' = xref + 1

\* Lines 299-311 when the inspection raises: except Exception: pass.
ScanRaises ==
    /\ xref < xreflen
    /\ fontdict[<<xref, label>>].type = "raises"
    /\ Advance
    /\ UNCHANGED <<xreflen, fontdict, original, firstpass, pass>>
    /\ UNCHANGED <<maskVars, streamVars, fontVars, batchVars>>

\* Lines 299-309 when nothing is to be bound.
ScanSkips ==
    /\ xref < xreflen
    /\ fontdict[<<xref, label>>].type # "raises"
    /\ ~Binds(fontdict[<<xref, label>>])
    /\ Advance
    /\ UNCHANGED <<xreflen, fontdict, original, firstpass, pass>>
    /\ UNCHANGED <<maskVars, streamVars, fontVars, batchVars>>

\* Lines 305-309: xref_set_key binds the font's name.
ScanBinds ==
    /\ xref < xreflen
    /\ fontdict[<<xref, label>>].type # "raises"
    /\ Binds(fontdict[<<xref, label>>])
    /\ fontdict' = [fontdict EXCEPT ![<<xref, label>>].bound = NewRef]
    /\ Advance
    /\ UNCHANGED <<xreflen, original, firstpass, pass>>
    /\ UNCHANGED <<maskVars, streamVars, fontVars, batchVars>>

\* The scan is run a second time on the document the first one left.
ScanAgain ==
    /\ xref = xreflen
    /\ pass = 1
    /\ firstpass' = fontdict
    /\ pass' = 2
    /\ xref' = 1
    /\ label' = 1
    /\ UNCHANGED <<xreflen, fontdict, original>>
    /\ UNCHANGED <<maskVars, streamVars, fontVars, batchVars>>

----------------------------------------------------------------------------
(* translate(): check_files and the loop over the files, lines 137-141 and
   395-454 *)

NoError == "none"

\* The kinds of entry of the files list: a local PDF that translates
\* ("local"), a local path that does not exist ("missing"), a local PDF on
\* which translate_stream fails with a parse or detector error ("malformed"),
\* an http(s) URL that answers ("remote") and one that does not ("unreachable").
FileKinds == {"local", "missing", "malformed", "remote", "unreachable"}

\* file.startswith("http://") or file.startswith("https://")
IsOnline(f) == f \in {"remote", "unreachable"}

\* A faulty variant: nothing is reported missing.
check_nothing(fs) == {}

\* check_files, lines 137-141: the positions of the entries that are not
\* online and do not exist.
check_files(fs) == {i \in DOMAIN fs : ~IsOnline(fs[i]) /\ fs[i] = "missing"}

\* "file is str", line 409: file is a str object and never the type str
\* itself, so the comparison is false for every entry.
FileIsStr(f) == FALSE

\* The condition of line 409: the entry is downloaded.
Downloads(f) == FileIsStr(f) /\ IsOnline(f)

\* Whether open(file, "rb"), line 434, finds the file: a local file that
\* exists, or the temporary file a download wrote.
Opens(f) ==
    \/ f \in {"local", "malformed"}
    \/ (Downloads(f) /\ f = "remote")

BatchStart ==
    /\ files \in UNION {[1..n -> FileKinds] : n \in 0..MaxBatch}
    /\ fileno = 0
    /\ read = {}
    /\ written = {}
    /\ result_files = <<>>
    /\ error = NoError
    /\ tpc = "check"

\* Lines 395-396.
RaiseNoFiles ==
    /\ tpc = "check"
    /\ files = <<>>
    /\ error' = "PDFValueError: No files to process."
    /\ tpc' = "raised"
    /\ UNCHANGED <<files, fileno, read, written, result_files>>
    /\ UNCHANGED <<maskVars, streamVars, fontVars, scanVars>>

\* Lines 398-404.
RaiseMissing ==
    /\ tpc = "check"
    /\ files # <<>>
    /\ check_files(files) # {}
    /\ error' = "PDFValueError: Some files do not exist."
    /\ tpc' = "raised"
    /\ UNCHANGED <<files, fileno, read, written, result_files>>
    /\ UNCHANGED <<maskVars, streamVars, fontVars, scanVars>>

\* Lines 398-408: nothing is missing, the loop begins.
EnterLoop ==
    /\ tpc = "check"
    /\ files # <<>>
    /\ check_files(files) = {}
    /\ fileno' = 1
    /\ tpc' = "loop"
    /\ UNCHANGED <<files, read, written, result_files, error>>
    /\ UNCHANGED <<maskVars, streamVars, fontVars, scanVars>>

\* Lines 409-434 when the entry cannot be had: the download of line 412 fails
\* (PDFValueError, line 421), or open() does not find the path.
FileFails ==
    /\ tpc = "loop"
    /\ fileno <= Len(files)
    /\ ~Opens(files[fileno])
    /\ error' = IF Downloads(files[fileno])
                 THEN "PDFValueError: Errors occur in downloading the PDF file."
                 ELSE "FileNotFoundError"
    /\ tpc' = "raised"
    /\ UNCHANGED <<files, fileno, read, written, result_files>>
    /\ UNCHANGED <<maskVars, streamVars, fontVars, scanVars>>

\* A faulty variant: the failure is swallowed and the loop goes on with the
\* next entry.
TranslateFailsSkipsFile ==
    /\ tpc = "loop"
    /\ fileno <= Len(files)
    /\ Opens(files[fileno])
    /\ files[fileno] = "malformed"
    /\ read' = read \cup {fileno}
    /\ fileno' = fileno + 1
    /\ UNCHANGED <<files, written, result_files, error, tpc>>
    /\ UNCHANGED <<maskVars, streamVars, fontVars, scanVars>>

\* Lines 434-443 on a document translate_stream fails on: the exception
\* leaves the loop and translate().
TranslateFails ==
    /\ tpc = "loop"
    /\ fileno <= Len(files)
    /\ Opens(files[fileno])
    /\ files[fileno] = "malformed"
    /\ read' = read \cup {fileno}
    /\ error' = "translate_stream failed"
    /\ tpc' = "raised"
    /\ UNCHANGED <<files, fileno, written, result_files>>
    /\ UNCHANGED <<maskVars, streamVars, fontVars, scanVars>>

\* Lines 409-452: the entry is read, translated and its outputs written.
TranslateFile ==
    /\ tpc = "loop"
    /\ fileno <= Len(files)
    /\ Opens(files[fileno])
    /\ files[fileno] # "malformed"
    /\ read' = read \cup {fileno}
    /\ written' = written \cup {fileno}
    /\ result_files' = Append(result_files, fileno)
    /\ fileno' = fileno + 1
    /\ UNCHANGED <<files, error, tpc>>
    /\ UNCHANGED <<maskVars, streamVars, fontVars, scanVars>>

\* Line 454.
ReturnResults ==
    /\ tpc = "loop"
    /\ fileno > Len(files)
    /\ tpc' = "returned"
    /\ UNCHANGED <<files, fileno, read, written, result_files, error>>
    /\ UNCHANGED <<maskVars, streamVars, fontVars, scanVars>>

----------------------------------------------------------------------------
(* Specifications *)

MaskNext == Predict \/ StoreLayout

StreamNext ==
    \/ SetCancel
    \/ RaiseCancelled
    \/ SkipPage
    \/ ProcessPage
    \/ ReturnPatch
    \/ ApplyPatch
    \/ InsertFile
    \/ MovePage
    \/ ReturnStream

\* The values a part's variables keep under the other parts' specifications.
MaskParked ==
    /\ h = 0 /\ w = 0 /\ boxes = <<>> /\ layout = NoMask /\ mpc = "parked"

StreamParked ==
    /\ page_count = 0 /\ pages = {} /\ callback = FALSE
    /\ cancellation_event = FALSE /\ pageno = 0 /\ progress = 0
    /\ callbackCalls = 0 /\ masked = {} /\ contents = EmptyMap /\ new_xref = 0
    /\ processed = {} /\ obj_patch = EmptyMap /\ applied = {} /\ doc_en = <<>>
    /\ id = 0 /\ returned = NoResult /\ spc = "parked"

FontParked ==
    /\ platform = "parked" /\ disk = {} /\ cached = FALSE /\ calls = 0
    /\ fetchAttempts = 0 /\ downloads = 0 /\ font_path = None
    /\ lastFetch = FALSE /\ lastCached = FALSE

ScanParked ==
    /\ xreflen = 0 /\ fontdict = EmptyMap /\ original = EmptyMap
    /\ firstpass = EmptyMap /\ pass = 0 /\ xref = 0 /\ label = 0

BatchParked ==
    /\ files = <<>> /\ fileno = 0 /\ read = {} /\ written = {}
    /\ result_files = <<>> /\ error = NoError /\ tpc = "parked"

BatchNext ==
    \/ RaiseNoFiles
    \/ RaiseMissing
    \/ EnterLoop
    \/ FileFails
    \/ TranslateFails
    \/ TranslateFile
    \/ ReturnResults

ScanNext == ScanRaises \/ ScanSkips \/ ScanBinds \/ ScanAgain

FontNext == ResolveLocal \/ ResolveCached \/ ResolveFetch

MaskInit == MaskStart /\ StreamParked /\ FontParked /\ ScanParked /\ BatchParked

FontInit == FontStart /\ MaskParked /\ StreamParked /\ ScanParked /\ BatchParked

ScanInit == ScanStart /\ MaskParked /\ StreamParked /\ FontParked /\ BatchParked

BatchInit == BatchStart /\ MaskParked /\ StreamParked /\ FontParked /\ ScanParked

SpecBatch == BatchInit /\ [][BatchNext]_vars

SpecScan == ScanInit /\ [][ScanNext]_vars

SpecFont == FontInit /\ [][FontNext]_vars

StreamInit == StreamStart /\ MaskParked /\ FontParked /\ ScanParked /\ BatchParked

SpecMask == MaskInit /\ [][MaskNext]_vars

SpecStream == StreamInit /\ [][StreamNext]_vars

----------------------------------------------------------------------------
(* Claims about the layout mask *)

PreserveBoxes == {k \in 1..Len(boxes) : IsPreserve(boxes[k])}

\* C1: in the stored mask, every cell of the rectangle painted for a preserve
\* box holds 0, whatever the other boxes are and wherever the preserve box
\* stands in the list; none holds a translatable value index+2.
C1_PreserveCellsZero ==
    mpc = "stored" =>
        \A k \in PreserveBoxes :
            \A row \in 0..(h - 1), col \in 0..(w - 1) :
                InSlice(Rect(boxes[k], h, w), row, col) => layout[row][col] = 0

\* A stored mask where a preserve box is listed before a translatable box
\* whose painted rectangle shares a cell with it.
C1_Witness ==
    /\ mpc = "stored"
    /\ \E k \in PreserveBoxes : \E j \in (k + 1)..Len(boxes) :
        /\ ~IsPreserve(boxes[j])
        /\ \E row \in 0..(h - 1), col \in 0..(w - 1) :
            /\ InSlice(Rect(boxes[k], h, w), row, col)
            /\ InSlice(Rect(boxes[j], h, w), row, col)

\* C6: a translatable box (x0, 0, x1, h), alone on the page, is painted down
\* to the bottom row of the mask: row h-1 holds index+2 in the columns the
\* box covers.
C6_FullHeightReachesLastRow ==
    (/\ mpc = "stored"
     /\ Len(boxes) = 1
     /\ ~IsPreserve(boxes[1])
     /\ boxes[1].y0 = 0 /\ boxes[1].y1 = h)
    => \A col \in 0..(w - 1) :
          (Rect(boxes[1], h, w).x0 <= col /\ col < Rect(boxes[1], h, w).x1)
              => layout[h - 1][col] = 0 + 2

----------------------------------------------------------------------------
(* Claims about translate_stream *)

\* C2: when translate_stream returns, the dual document has 2n pages, page 2k
\* is original page k and page 2k+1 is translated page k, for every k < n.
C2_DualInterleaved ==
    spc = "returned" =>
        /\ Len(returned.dual) = 2 * page_count
        /\ Len(returned.dual) = 2 * Len(returned.mono)
        /\ \A k \in 0..(page_count - 1) :
            /\ returned.dual[2 * k + 1] = <<"en", k>>
            /\ returned.dual[2 * k + 2] = <<"zh", k>>

\* translate_stream returned the two outputs of a document of three pages or
\* more, after the loop of moves ran for every page.
C2_Witness ==
    /\ spc = "returned"
    /\ page_count >= 3
    /\ id = page_count

\* C3: a cancellation flag found set at the start of page k < N ends the sweep
\* with a cancellation failure; after it nothing happens any more: no patch
\* map is returned, no entry is applied to the target document, neither output
\* is returned, and the callback ran fewer than N times.
C3_CancelledYieldsNothing ==
    /\ [](spc = "cancelled" =>
            /\ returned = NoResult
            /\ applied = {}
            /\ callbackCalls < page_count)
    /\ [][(spc = "sweep" /\ pageno < page_count /\ cancellation_event)
            => spc' = "cancelled"]_vars
    /\ [][spc # "cancelled"]_vars

\* The sweep was cancelled at a page after it had rewritten earlier pages and
\* collected patch entries for them.
C3_Witness ==
    /\ spc = "cancelled"
    /\ pageno > 0
    /\ processed # {}
    /\ DOMAIN obj_patch # {}
    /\ callback /\ callbackCalls > 0

\* C4 as stated: progress is advanced and the callback invoked once for every
\* page the sweep has visited, skipped pages included.
C4_CallbackPerVisitedPage ==
    spc # "cancelled" =>
        /\ progress = pageno
        /\ callback => callbackCalls = pageno

\* C4 as amended: progress is advanced and the callback invoked once for every
\* visited page that the filter does not skip, and for no other page; an
\* uncancelled sweep ends with progress at its total.
C4_CallbackPerProcessedPage ==
    /\ processed = {p \in 0..(pageno - 1) : ~Filtered(p)}
    /\ progress = Cardinality(processed)
    /\ callbackCalls = IF callback THEN progress ELSE 0
    /\ spc \notin {"sweep", "cancelled"} => progress = total_pages

\* An uncancelled sweep of a 3-page document under the filter {0, 2} is over:
\* the callback ran twice.
C4_Witness ==
    /\ spc = "apply"
    /\ ~cancellation_event
    /\ page_count = 3
    /\ pages = {0, 2}
    /\ callback
    /\ callbackCalls = 2

\* C5: under a non-empty filter, a page outside the filter is left alone: the
\* rewrite engine never runs on it, no patch entry comes from it, no mask is
\* built for it and its original content stays bound.
C5_FilteredPageUntouched ==
    \A p \in 0..(page_count - 1) :
        Filtered(p) =>
            /\ p \notin processed
            /\ p \notin masked
            /\ contents[p] = 0
            /\ \A o \in DOMAIN obj_patch : obj_patch[o] # p

\* The sweep went past a filtered page that lies between two rewritten pages.
C5_Witness ==
    /\ pageno = page_count
    /\ \E p \in 0..(page_count - 1) :
        /\ Filtered(p)
        /\ \E q \in processed : q < p
        /\ \E q \in processed : q > p
    /\ DOMAIN obj_patch # {}

----------------------------------------------------------------------------
(* Claims about font resolution *)

HasLocal(family) ==
    \E d \in Range(font_paths(platform)), n \in Range(font_files(platform)[family]) :
        <<d, n>> \in disk

\* C8: a resolution takes the first family of simsun, simhei, msyh, simkai
\* that has an existing local file, without a network fetch; with no local
\* file it takes the fallback path, where a call that finds the cache file
\* fetches nothing and returns the cached path, so that over any sequence of
\* resolutions the file is downloaded at most once.
C8_FontResolution ==
    calls > 0 =>
        /\ \A k \in DOMAIN FontOrder :
              (HasLocal(FontOrder[k]) /\ \A j \in 1..(k - 1) : ~HasLocal(FontOrder[j]))
              => /\ font_path \in disk
                 /\ font_path[2] \in Range(font_files(platform)[FontOrder[k]])
                 /\ ~lastFetch
                 /\ fetchAttempts = 0
        /\ ((\A k \in DOMAIN FontOrder : ~HasLocal(FontOrder[k])) /\ lastCached)
              => (~lastFetch /\ font_path = FallbackPath)
        /\ lastFetch => ~lastCached
        /\ downloads <= 1

\* No local font file, the first resolution downloaded the fallback font and
\* a later one found it cached.
C8_Witness ==
    /\ disk = {}
    /\ calls >= 2
    /\ downloads = 1
    /\ lastCached
    /\ ~lastFetch
    /\ font_path = FallbackPath

----------------------------------------------------------------------------
(* Claims about the font-resource scan *)

\* The entries a scan has gone past: all of them once the first scan is over.
Scanned ==
    {k \in ScanKeys(xreflen) :
        pass = 2 \/ k[1] < xref \/ (k[1] = xref /\ k[2] < label)}

\* C7: the scan is idempotent: run again on the document it produced it
\* changes no font dictionary; a name already bound is never rebound; and an
\* object whose inspection fails does not keep the scan from the objects
\* behind it: every dictionary lacking the name that the scan has gone past
\* holds the binding.
C7_ScanIdempotent ==
    /\ pass = 2 => fontdict = firstpass
    /\ \A k \in ScanKeys(xreflen) :
        /\ (original[k].type = "dict" /\ original[k].bound # "null")
              => fontdict[k] = original[k]
        /\ original[k].type # "dict" => fontdict[k] = original[k]
        /\ (k \in Scanned /\ original[k].type = "dict" /\ original[k].bound = "null")
              => fontdict[k] = [type |-> "dict", bound |-> NewRef]

\* The second scan is over, on a document where a failing object stands in
\* front of a dictionary the first scan bound the name in, and where another
\* dictionary held the name from the start.
C7_Witness ==
    /\ pass = 2
    /\ xref = xreflen
    /\ \E k \in ScanKeys(xreflen), j \in ScanKeys(xreflen), i \in ScanKeys(xreflen) :
        /\ original[k].type = "raises"
        /\ (k[1] < j[1] \/ (k[1] = j[1] /\ k[2] < j[2]))
        /\ original[j] = [type |-> "dict", bound |-> "null"]
        /\ fontdict[j].bound = NewRef
        /\ original[i] = [type |-> "dict", bound |-> OldRef]

----------------------------------------------------------------------------
(* Claims about translate() *)

\* C9 as stated: a failure of translate_stream on one file of a batch is
\* fatal for that file only: every other file of the batch, before or behind
\* it, has its outputs written.
C9_FailureStaysInOneFile ==
    (tpc = "raised" /\ error = "translate_stream failed")
    => \A j \in DOMAIN files : files[j] = "local" => j \in written

\* C9 as amended: a failure of translate_stream on one file ends the whole
\* call there: the entries in front of the failing one have their outputs
\* written, the failing one and those behind it have none, and no result
\* list is returned.
C9_FailureEndsBatch ==
    /\ \A j \in read :
          files[j] = "malformed"
          => /\ tpc = "raised"
             /\ error = "translate_stream failed"
             /\ fileno = j
    /\ (tpc = "raised" /\ error = "translate_stream failed")
          => /\ files[fileno] = "malformed"
             /\ written = 1..(fileno - 1)
             /\ Len(result_files) = fileno - 1
    /\ tpc = "returned" => \A j \in DOMAIN files : files[j] # "malformed"

\* translate_stream failed on the second of three files, between two good
\* local files.
C9_Witness ==
    /\ tpc = "raised"
    /\ error = "translate_stream failed"
    /\ Len(files) = 3
    /\ fileno = 2
    /\ files[1] = "local"
    /\ files[3] = "local"
    /\ written = {1}

\* The errors of the input: no files, a missing file, a remote source that
\* cannot be had.
InputErrors ==
    {"PDFValueError: No files to process.",
     "PDFValueError: Some files do not exist.",
     "PDFValueError: Errors occur in downloading the PDF file.",
     "FileNotFoundError"}

\* C10 as stated: when translate() raises for a bad input, no file of the
\* batch has been read or translated and no output has been written.
C10_InputErrorsBeforeAnyDocument ==
    (tpc = "raised" /\ error \in InputErrors) => (read = {} /\ written = {})

\* C10 as amended: an empty list and a missing local file are reported before
\* any document is opened; a batch with such an input never reads or writes
\* anything. A remote source is not looked at before the loop: the failure on
\* it is raised when the loop reaches it, and by then exactly the entries in
\* front of it have been read, translated and written.
C10_LocalInputErrorsBeforeAnyDocument ==
    /\ (files = <<>> \/ \E i \in DOMAIN files : files[i] = "missing")
          => (read = {} /\ written = {} /\ tpc \in {"check", "raised"})
    /\ (tpc = "raised" /\ error \in {"PDFValueError: No files to process.",
                                       "PDFValueError: Some files do not exist."})
          => (fileno = 0 /\ read = {} /\ written = {})
    /\ (tpc = "raised" /\ error \in {"FileNotFoundError",
                                       "PDFValueError: Errors occur in downloading the PDF file."})
          => /\ IsOnline(files[fileno])
             /\ read = 1..(fileno - 1)
             /\ written = 1..(fileno - 1)

\* translate() raised for a batch whose last entry is missing, in front of
\* which stand a good local file and a remote source.
C10_Witness ==
    /\ tpc = "raised"
    /\ error = "PDFValueError: Some files do not exist."
    /\ Len(files) >= 3
    /\ files[1] = "local"
    /\ IsOnline(files[2])
    /\ files[Len(files)] = "missing"

====
